---- MODULE Spec2Model ----
(***************************************************************************)
(* A model of one dungeon floor (gamemap.py: Camera, GameMap) and of the   *)
(* top-level loop (model.py: Model.loop).                                  *)
(*                                                                         *)
(* Positions are <<x, y>> tuples; grids are functions over <<x, y>> cells  *)
(* of the world, standing for the NumPy arrays indexed [y, x].             *)
(***************************************************************************)
EXTENDS Integers, Sequences, FiniteSets, TLC

VARIABLES
    width,        \* GameMap.width
    height,       \* GameMap.height
    camera_xy,    \* GameMap.camera_xy, the camera center <<x, y>>
    screen_shape, \* <<console.width, console.height>> of the console in use
    views,        \* result of the last Camera.get_views call, or None
    tiles,        \* GameMap.tiles: cell -> [move_cost, transparent, light, dark]
    visible,      \* GameMap.visible: cell -> BOOLEAN
    explored,     \* GameMap.explored: cell -> BOOLEAN
    actors,       \* GameMap.actors: the set of live actors
    location,     \* actor -> its location <<x, y>>, or NoLocation
    items,        \* GameMap.items: the positions that hold an item list
    console,      \* the outcome of the last GameMap.render call, or None
    query,        \* the outcome of the last is_blocked / fighter_at call, or None
    fighter,      \* the player's fighter: [hp |-> n], or NoFighter
    pc,           \* position of Model.loop within its iteration
    calls,        \* the current iteration of Model.loop: the predicate's value, then the call made
    turns         \* number of scheduler invocations so far (capped)

vars == <<width, height, camera_xy, screen_shape, views, tiles, visible, explored,
          actors, location, items, console, query, fighter, pc, calls, turns>>

None == "None"
\* No call made yet: the value of views, console and query before the first call.
NoCall == [called |-> FALSE]
\* An actor that is not on the map has no location.
NoLocation == <<>>
\* A player without the fighter capability.
NoFighter == [absent |-> TRUE]

Max(a, b) == IF a >= b THEN a ELSE b
Min(a, b) == IF a <= b THEN a ELSE b

(***************************************************************************)
(* Bounds of the model.                                                    *)
(***************************************************************************)
\* Camera specification: world and screen sides range over 1..Max, the camera
\* center over -CamReach .. MaxWorld + CamReach on both axes.
MaxWorld == 3
MaxScreen == 3
CamReach == 3

(***************************************************************************)
(* Python / NumPy slicing.                                                 *)
(***************************************************************************)
\* slice(start, stop) with step 1.
Slice(start, stop) == [start |-> start, stop |-> stop]

\* One bound of a slice resolved against an axis of length len, as
\* slice.indices(len) does: a negative bound counts from the end, then the
\* bound is clamped into 0..len.
SliceBound(b, len) == IF b < 0 THEN Max(b + len, 0) ELSE Min(b, len)

\* The indices a slice selects on an axis of length len, in order.
SliceIndices(s, len) ==
    LET lo == SliceBound(s.start, len)
        hi == SliceBound(s.stop, len)
    IN  [k \in 1..Max(hi - lo, 0) |-> lo + k - 1]

(***************************************************************************)
(* Camera                                                                  *)
(***************************************************************************)
\* Camera.get_left_top_pos(screen_shape)
get_left_top_pos(cam, sshape) ==
    <<cam[1] - (sshape[1] \div 2), cam[2] - (sshape[2] \div 2)>>

\* Camera.get_views(world_shape, screen_shape): (screen_view, world_view),
\* each a pair of slices (rows, cols).
get_views(cam, wshape, sshape) ==
    LET camera_left == get_left_top_pos(cam, sshape)[1]
        camera_top == get_left_top_pos(cam, sshape)[2]
        screen_left == Max(0, -camera_left)
        screen_top == Max(0, -camera_top)
        world_left == Max(0, camera_left)
        world_top == Max(0, camera_top)
        screen_width == Min(sshape[1] - screen_left, wshape[1] - world_left)
        screen_height == Min(sshape[2] - screen_top, wshape[2] - world_top)
    IN  [called |-> TRUE,
         screen_view |-> [rows |-> Slice(screen_top, screen_top + screen_height),
                          cols |-> Slice(screen_left, screen_left + screen_width)],
         world_view |-> [rows |-> Slice(world_top, world_top + screen_height),
                         cols |-> Slice(world_left, world_left + screen_width)]]

\* The <<rows, cols>> index sequences a view selects of an array holding
\* shape[2] rows and shape[1] columns.
ViewIndices(view, shape) ==
    [rows |-> SliceIndices(view.rows, shape[2]),
     cols |-> SliceIndices(view.cols, shape[1])]

\* The NumPy shape (rows, cols) of array[view].
ViewShape(view, shape) ==
    <<Len(ViewIndices(view, shape).rows), Len(ViewIndices(view, shape).cols)>>

(***************************************************************************)
(* Specification of the camera: Init draws a camera center, a world shape  *)
(* and a screen shape; the one action applies Camera.get_views.            *)
(***************************************************************************)
CamCoords(len) == (0 - CamReach)..(len - 1 + CamReach)

\* The parts of the state a specification does not use.
NoFloor ==
    /\ tiles = None /\ visible = None /\ explored = None
    /\ actors = {} /\ location = None /\ items = None
NoLoop == fighter = None /\ pc = None /\ calls = None /\ turns = 0

\* The scenario of the specification: world 5x5, screen 10x10, camera (2, 2).
ScenarioInputs == [world |-> <<5, 5>>, screen |-> <<10, 10>>, camera |-> <<2, 2>>]

CameraInit ==
    /\ \/ /\ width \in 1..MaxWorld /\ height \in 1..MaxWorld
          /\ screen_shape \in (1..MaxScreen) \X (1..MaxScreen)
          /\ camera_xy \in CamCoords(width) \X CamCoords(height)
       \/ /\ width = ScenarioInputs.world[1] /\ height = ScenarioInputs.world[2]
          /\ screen_shape = ScenarioInputs.screen
          /\ camera_xy = ScenarioInputs.camera
    /\ views = NoCall
    /\ console = NoCall /\ query = NoCall
    /\ NoFloor /\ NoLoop

\* self.camera.get_views((self.width, self.height), screen_shape)
GetViews ==
    /\ ~views.called
    /\ views' = get_views(camera_xy, <<width, height>>, screen_shape)
    /\ UNCHANGED <<width, height, camera_xy, screen_shape, tiles, visible, explored,
                   actors, location, items, console, query, fighter, pc, calls, turns>>

CameraNext == GetViews
SpecCamera == CameraInit /\ [][CameraNext]_vars

\* The window of the camera on the world: the world cells <<wx, wy>> that lie
\* in the world and whose screen cell <<wx - camLeft, wy - camTop>> lies on the screen.
InWindow(w, cam, wshape, sshape) ==
    LET lt == get_left_top_pos(cam, sshape)
    IN  /\ 0 <= w[1] /\ w[1] < wshape[1] /\ 0 <= w[2] /\ w[2] < wshape[2]
        /\ 0 <= w[1] - lt[1] /\ w[1] - lt[1] < sshape[1]
        /\ 0 <= w[2] - lt[2] /\ w[2] - lt[2] < sshape[2]

WorldCells(wshape) == (0..(wshape[1] - 1)) \X (0..(wshape[2] - 1))

Window(cam, wshape, sshape) == {w \in WorldCells(wshape) : InWindow(w, cam, wshape, sshape)}

\* C1: get_views yields a screen rectangle and a world rectangle of equal
\* widths and equal heights, both non-negative: the two views select the
\* same number of rows and of columns of their arrays.
C1_ViewsEqualShape ==
    views.called =>
        LET s == ViewShape(views.screen_view, screen_shape)
            w == ViewShape(views.world_view, <<width, height>>)
        IN  s = w /\ s[1] >= 0 /\ s[2] >= 0

\* The pairs <<screen cell, world cell>> the two views put together: the
\* k-th selected row/column of the screen with the k-th of the world.
ViewPairs(v, wshape, sshape) ==
    LET s == ViewIndices(v.screen_view, sshape)
        w == ViewIndices(v.world_view, wshape)
    IN  {<<<<s.cols[j], s.rows[i]>>, <<w.cols[j], w.rows[i]>>>> :
            i \in (DOMAIN s.rows) \cap (DOMAIN w.rows),
            j \in (DOMAIN s.cols) \cap (DOMAIN w.cols)}

ViewWorldCells(v, wshape) ==
    LET w == ViewIndices(v.world_view, wshape)
    IN  {<<w.cols[j], w.rows[i]>> : i \in DOMAIN w.rows, j \in DOMAIN w.cols}

\* C2: get_views computes exactly the intersection of the camera window with
\* the world: a world cell is in the world view iff it is in the window, and
\* the screen cell paired with it is <<wx - camLeft, wy - camTop>>.
C2_ViewsAreIntersection ==
    views.called =>
        LET wshape == <<width, height>>
            lt == get_left_top_pos(camera_xy, screen_shape)
        IN  /\ ViewWorldCells(views, wshape) = Window(camera_xy, wshape, screen_shape)
            /\ \A p \in ViewPairs(views, wshape, screen_shape) :
                   p[1] = <<p[2][1] - lt[1], p[2][2] - lt[2]>>

\* The same two statements for the cameras whose window meets the world.
ViewsExactWhenWindowNonEmpty ==
    (views.called /\ Window(camera_xy, <<width, height>>, screen_shape) # {}) =>
        C1_ViewsEqualShape /\ C2_ViewsAreIntersection

\* The scenario: the world view is the rectangle (0, 0, 5, 5) and the screen
\* view is 5x5 at offset (3, 3).
ScenarioViews ==
    (/\ views.called /\ <<width, height>> = ScenarioInputs.world
     /\ screen_shape = ScenarioInputs.screen /\ camera_xy = ScenarioInputs.camera) =>
        /\ views.world_view = [rows |-> Slice(0, 5), cols |-> Slice(0, 5)]
        /\ views.screen_view = [rows |-> Slice(3, 8), cols |-> Slice(3, 8)]

(***************************************************************************)
(* The floor: GameMap                                                      *)
(***************************************************************************)
\* Floors of the model hold at most MaxCells cells.
MaxCells == 3
\* radius=10 of the compute_fov call.
FovRadius == 10
\* The player, GameMap.player, among the actor identities 0, 1, ...
Player == 0

Shapes(n) == {s \in (1..n) \X (1..n) : s[1] * s[2] <= n}
Cells == WorldCells(<<width, height>>)

\* tile_graphic records.
Graphic(ch, fg, bg) == [ch |-> ch, fg |-> fg, bg |-> bg]
\* GameMap.DARKNESS
DARKNESS == Graphic(0, <<0, 0, 0>>, <<0, 0, 0>>)

\* The terrain an external generator filled in: every cell carries its own
\* glyph, and the light and dark graphics differ in both colours.
LightOf(c) == Graphic(100 + 10 * c[2] + c[1], <<200, 200, 200>>, <<50, 50, 150>>)
DarkOf(c) == Graphic(100 + 10 * c[2] + c[1], <<100, 100, 100>>, <<0, 0, 100>>)
Tile(move_cost, transparent, light, dark) ==
    [move_cost |-> move_cost, transparent |-> transparent, light |-> light, dark |-> dark]
Terrain(wshape) == [c \in WorldCells(wshape) |-> Tile(1, TRUE, LightOf(c), DarkOf(c))]

\* GameMap.__init__: both visibility grids start all-false.
NewGrid(wshape) == [c \in WorldCells(wshape) |-> FALSE]

\* tcod.map.compute_fov(transparency, pov, radius, light_walls, algorithm):
\* the library is no part of the sources. Its outcome is any grid of the
\* shape of transparency that marks no cell farther than radius from pov.
compute_fov(transparency, pov, radius) ==
    {g \in [DOMAIN transparency -> BOOLEAN] :
        \A c \in DOMAIN transparency :
            g[c] => /\ c[1] - pov[1] <= radius /\ pov[1] - c[1] <= radius
                    /\ c[2] - pov[2] <= radius /\ pov[2] - c[2] <= radius}

UnchangedButFov ==
    UNCHANGED <<width, height, camera_xy, screen_shape, views, tiles, actors,
                location, items, console, query, fighter, pc, calls, turns>>

\* update_fov with the two statements of its tail in the other order.
update_fov_StaleUnion ==
    /\ IF location[Player] = NoLocation
          THEN UNCHANGED <<visible, explored>>
          ELSE /\ explored' = [c \in Cells |-> explored[c] \/ visible[c]]
               /\ visible' \in compute_fov([c \in Cells |-> tiles[c].transparent],
                                             location[Player], FovRadius)
    /\ UnchangedButFov

\* update_fov with explored assigned instead of or-ed.
update_fov_Assign ==
    /\ IF location[Player] = NoLocation
          THEN UNCHANGED <<visible, explored>>
          ELSE /\ visible' \in compute_fov([c \in Cells |-> tiles[c].transparent],
                                             location[Player], FovRadius)
               /\ explored' = visible'
    /\ UnchangedButFov

\* GameMap.update_fov
update_fov ==
    /\ IF location[Player] = NoLocation
          THEN UNCHANGED <<visible, explored>>
          ELSE /\ visible' \in compute_fov([c \in Cells |-> tiles[c].transparent],
                                             location[Player], FovRadius)
               /\ explored' = [c \in Cells |-> explored[c] \/ visible'[c]]
    /\ UnchangedButFov

\* A turn moves the player to a cell of the floor or takes the player off the map.
PlayerRelocates ==
    /\ \E l \in Cells \cup {NoLocation} :
          /\ l # location[Player]
          /\ location' = [location EXCEPT ![Player] = l]
    /\ actors' = IF location'[Player] = NoLocation THEN {} ELSE {Player}
    /\ UNCHANGED <<width, height, camera_xy, screen_shape, views, tiles, visible,
                   explored, items, console, query, fighter, pc, calls, turns>>

NoCamera == camera_xy = <<0, 0>> /\ screen_shape = None /\ views = NoCall

\* A freshly constructed floor with the player placed on it.
FovInit ==
    /\ \E s \in Shapes(MaxCells) : width = s[1] /\ height = s[2]
    /\ tiles = Terrain(<<width, height>>)
    /\ visible = NewGrid(<<width, height>>)
    /\ explored = NewGrid(<<width, height>>)
    /\ location \in [{Player} -> Cells]
    /\ actors = {Player}
    /\ items = <<>>
    /\ console = NoCall /\ query = NoCall
    /\ NoCamera /\ NoLoop

FovNext == update_fov \/ PlayerRelocates
SpecFov == FovInit /\ [][FovNext]_vars

\* C4: explored is monotonically non-decreasing: a cell that is explored
\* stays explored in every later state, whatever update_fov calls follow.
C4_ExploredMonotonic ==
    [][\A c \in Cells : explored[c] => explored'[c]]_vars

\* A cell explored by an earlier call that the latest call did not see,
\* with the player elsewhere on the map.
C4_Witness ==
    /\ location[Player] # NoLocation
    /\ \E c \in Cells : explored[c] /\ ~visible[c] /\ c # location[Player]

\* C5: in every state reachable from a fresh floor by update_fov calls,
\* every visible cell is explored.
C5_VisibleImpliesExplored ==
    \A c \in Cells : visible[c] => explored[c]

\* The player is off the map (update_fov is a no-op) while cells are visible.
C5_Witness ==
    /\ location[Player] = NoLocation
    /\ \E c \in Cells : visible[c] /\ explored[c]

(***************************************************************************)
(* Spatial queries: is_blocked and fighter_at                              *)
(***************************************************************************)
\* The query specifications place up to MaxBlockers / MaxFighters actors, give
\* tiles a move_cost of 0..MaxMoveCost, and ask about the coordinates from
\* QueryReach before the floor to QueryReach past it.
MaxBlockers == 1
MaxFighters == 2
MaxMoveCost == 1
QueryReach == 1
\* fighter_at's `return None`
NoActor == -1

QueryCoords(len) == (0 - QueryReach)..(len - 1 + QueryReach)

\* NumPy's array[i] on an axis of length len: a negative index counts from
\* the end, an index outside -len..len-1 raises IndexError.
IndexInAxis(i, len) == 0 - len <= i /\ i < len
AxisIndex(i, len) == IF i < 0 THEN i + len ELSE i

Returned(ret, indexed) == [ret |-> ret, raised |-> "", indexed |-> indexed]
Raised(exc, indexed) == [ret |-> FALSE, raised |-> exc, indexed |-> indexed]

\* The rest of is_blocked once the bounds check has passed:
\* self.tiles[y, x]["move_cost"], then the scan of the actors.
is_blocked_indexed(x, y) ==
    IF ~(IndexInAxis(y, height) /\ IndexInAxis(x, width))
      THEN Raised("IndexError", <<<<y, x>>>>)
    ELSE IF tiles[<<AxisIndex(x, width), AxisIndex(y, height)>>].move_cost = 0
      THEN Returned(TRUE, <<<<y, x>>>>)
    ELSE IF \E actor \in actors : location[actor] = <<x, y>>
      THEN Returned(TRUE, <<<<y, x>>>>)
    ELSE Returned(FALSE, <<<<y, x>>>>)

\* is_blocked with the upper bounds of the check off by one.
is_blocked_OffByOne(x, y) ==
    IF ~(0 <= x /\ x <= width /\ 0 <= y /\ y <= height)
      THEN Returned(TRUE, <<>>)
      ELSE is_blocked_indexed(x, y)

\* GameMap.is_blocked(x, y): the value returned, the exception raised if any,
\* and the [y, x] indices it read of the tile grid.
is_blocked(x, y) ==
    IF ~(0 <= x /\ x < width /\ 0 <= y /\ y < height)
      THEN Returned(TRUE, <<>>)
      ELSE is_blocked_indexed(x, y)

\* The orders in which iterating a set can yield its members.
Orders(S) ==
    {o \in [1..Cardinality(S) -> S] : \A i, j \in DOMAIN o : i # j => o[i] # o[j]}

\* The positions of order whose actor is at <<x, y>>.
Matches(order, x, y) == {i \in DOMAIN order : location[order[i]] = <<x, y>>}

\* fighter_at whose loop keeps the last match instead of returning the first.
fighter_at_LastMatch(order, x, y) ==
    IF Matches(order, x, y) = {} THEN NoActor
    ELSE order[CHOOSE i \in Matches(order, x, y) : \A j \in Matches(order, x, y) : j <= i]

\* GameMap.fighter_at(x, y), the loop over self.actors yielding its members
\* in this order.
fighter_at(order, x, y) ==
    IF Matches(order, x, y) = {} THEN NoActor
    ELSE order[CHOOSE i \in Matches(order, x, y) : \A j \in Matches(order, x, y) : i <= j]

UnchangedButQuery ==
    UNCHANGED <<width, height, camera_xy, screen_shape, views, tiles, visible, explored,
                actors, location, items, console, fighter, pc, calls, turns>>

\* A call of is_blocked(x, y) on the floor as Init drew it. The queries change
\* nothing of the floor, so one call per behaviour covers every call.
IsBlocked ==
    /\ ~query.called
    /\ \E x \in QueryCoords(width), y \in QueryCoords(height) :
          query' = [called |-> TRUE, op |-> "is_blocked", x |-> x, y |-> y,
                    result |-> is_blocked(x, y)]
    /\ UnchangedButQuery

\* A call of fighter_at(x, y). A set has no order of its own: the loop sees
\* the actors in one of the orders the set can yield.
FighterAt ==
    /\ ~query.called
    /\ \E order \in Orders(actors), x \in QueryCoords(width), y \in QueryCoords(height) :
          query' = [called |-> TRUE, op |-> "fighter_at", x |-> x, y |-> y,
                    order |-> order, result |-> fighter_at(order, x, y)]
    /\ UnchangedButQuery

\* A floor whose terrain has any move_cost per cell and that holds any of
\* the actors 0..n-1, each at a cell of its own choice.
QueryFloor(n, costs) ==
    /\ \E s \in Shapes(MaxCells) : width = s[1] /\ height = s[2]
    /\ \E cost \in [Cells -> costs] :
          tiles = [c \in Cells |-> Tile(cost[c], TRUE, LightOf(c), DarkOf(c))]
    /\ visible = NewGrid(<<width, height>>)
    /\ explored = NewGrid(<<width, height>>)
    /\ location \in [0..(n - 1) -> Cells \cup {NoLocation}]
    /\ actors = {a \in 0..(n - 1) : location[a] # NoLocation}
    /\ items = <<>>
    /\ console = NoCall /\ query = NoCall
    /\ NoCamera /\ NoLoop

BlockedInit == QueryFloor(MaxBlockers, 0..MaxMoveCost)
BlockedNext == IsBlocked
SpecBlocked == BlockedInit /\ [][BlockedNext]_vars

FighterAtInit == QueryFloor(MaxFighters, {1})
FighterAtNext == FighterAt
SpecFighterAt == FighterAtInit /\ [][FighterAtNext]_vars

OutOfBounds(x, y) == x < 0 \/ x >= width \/ y < 0 \/ y >= height

\* C6: is_blocked(x, y) returns true iff (x, y) is outside the floor, or the
\* tile at row y, column x has move_cost 0, or some live actor is at (x, y);
\* outside the floor it returns true without indexing the tile grid.
C6_IsBlocked ==
    (query.called /\ query.op = "is_blocked") =>
        LET x == query.x
            y == query.y
        IN  /\ query.result.raised = ""
            /\ query.result.ret <=>
                   \/ OutOfBounds(x, y)
                   \/ tiles[<<x, y>>].move_cost = 0
                   \/ \E a \in actors : location[a] = <<x, y>>
            /\ OutOfBounds(x, y) => query.result.indexed = <<>>
            /\ ~OutOfBounds(x, y) => query.result.indexed = <<<<y, x>>>>

\* is_blocked asked about the column just past the right edge.
C6_Witness ==
    /\ query.called /\ query.op = "is_blocked"
    /\ query.x = width /\ query.y \in 0..(height - 1)
    /\ query.result.ret /\ query.result.indexed = <<>>

\* is_blocked asked about a free, passable cell of a floor that holds an actor.
C6_FreeCell ==
    /\ query.called /\ query.op = "is_blocked"
    /\ ~OutOfBounds(query.x, query.y) /\ actors # {}
    /\ ~query.result.ret

ActorsAt(x, y) == {a \in actors : location[a] = <<x, y>>}

\* fighter_at returns an actor at (x, y) whenever there is one, None otherwise.
ReturnsOccupant ==
    /\ query.result # NoActor => query.result \in ActorsAt(query.x, query.y)
    /\ query.result = NoActor => ActorsAt(query.x, query.y) = {}

\* C9 (as claimed): fighter_at returns an actor at (x, y) whenever there is
\* one and None otherwise, and the actor returned does not depend on the
\* iteration order of the actor collection.
C9_OrderIndependent ==
    (query.called /\ query.op = "fighter_at") =>
        /\ ReturnsOccupant
        /\ \A o \in Orders(actors) : fighter_at(o, query.x, query.y) = query.result

\* C9 (amended): fighter_at returns an actor at (x, y) whenever there is one
\* and None otherwise; of several actors at (x, y) it returns the one the
\* iteration of the actor set yields first.
C9_FirstInIterationOrder ==
    (query.called /\ query.op = "fighter_at") =>
        /\ ReturnsOccupant
        /\ \A i \in DOMAIN query.order :
              query.order[i] = query.result =>
                 \A j \in 1..(i - 1) : location[query.order[j]] # <<query.x, query.y>>

\* Two actors share the cell asked about, and the one returned is the one
\* with the larger identity.
C9_Witness ==
    /\ query.called /\ query.op = "fighter_at"
    /\ Cardinality(ActorsAt(query.x, query.y)) >= 2
    /\ \E a \in ActorsAt(query.x, query.y) : a < query.result

(***************************************************************************)
(* Model.loop                                                              *)
(***************************************************************************)
\* The fighter's hp ranges over -1..MaxHp; the scheduler is invoked at most
\* MaxTurns times.
MaxHp == 3
MaxTurns == 6

Fighters == {NoFighter} \cup [hp : (0 - 1)..MaxHp]

\* Model.is_player_dead
is_player_dead == fighter = NoFighter \/ fighter.hp <= 0

UnchangedButLoop ==
    UNCHANGED <<width, height, camera_xy, screen_shape, views, tiles, visible, explored,
                actors, location, items, console, query>>

\* `if self.is_player_dead():` at the head of an iteration of `while True`.
LoopTest ==
    /\ pc = "while_True"
    /\ calls' = IF is_player_dead THEN <<"dead">> ELSE <<"alive">>
    /\ pc' = IF is_player_dead THEN "GameOver" ELSE "invoke_next"
    /\ UNCHANGED <<fighter, turns>>
    /\ UnchangedButLoop

\* The terminal branch without its `continue`: control falls through to the
\* scheduler.
GameOverLoop_NoContinue ==
    /\ pc = "GameOver"
    /\ fighter' \in Fighters
    /\ calls' = Append(calls, "GameOver")
    /\ pc' = "invoke_next"
    /\ UNCHANGED turns
    /\ UnchangedButLoop

\* `states.GameOver(self).loop()` followed by `continue`. The handler is
\* external: it may leave the player as it is or set up a new game.
GameOverLoop ==
    /\ pc = "GameOver"
    /\ fighter' \in Fighters
    /\ calls' = Append(calls, "GameOver")
    /\ pc' = "while_True"
    /\ UNCHANGED turns
    /\ UnchangedButLoop

\* `self.active_map.scheduler.invoke_next()`: one actor's turn, which may
\* change the player's fighter in any way.
InvokeNext ==
    /\ pc = "invoke_next"
    /\ turns < MaxTurns
    /\ fighter' \in Fighters
    /\ calls' = Append(calls, "invoke_next")
    /\ turns' = turns + 1
    /\ pc' = "while_True"
    /\ UnchangedButLoop

LoopInit ==
    /\ fighter \in Fighters
    /\ pc = "while_True" /\ calls = <<>> /\ turns = 0
    /\ width = 1 /\ height = 1
    /\ console = NoCall /\ query = NoCall
    /\ NoCamera /\ NoFloor

LoopNext == LoopTest \/ GameOverLoop \/ InvokeNext
SpecLoop == LoopInit /\ [][LoopNext]_vars

\* C8: every iteration evaluates the terminal predicate first and then makes
\* exactly one external call: the terminal-state handler if the player is
\* dead, one scheduler invocation if not. The scheduler is never invoked with
\* the player dead, and after the handler the predicate is evaluated again
\* before any scheduler invocation.
C8_OneCallPerIteration ==
    /\ pc \in {"while_True", "GameOver", "invoke_next"}
    /\ pc = "invoke_next" => calls = <<"alive">> /\ ~is_player_dead
    /\ pc = "GameOver" => calls = <<"dead">> /\ is_player_dead
    /\ pc = "while_True" =>
          calls \in {<<>>, <<"dead", "GameOver">>, <<"alive", "invoke_next">>}

\* The handler has returned with the player alive again (a new game), and
\* the loop is back at the predicate.
C8_Witness ==
    /\ pc = "while_True" /\ calls = <<"dead", "GameOver">> /\ ~is_player_dead

(***************************************************************************)
(* GameMap.render                                                          *)
(***************************************************************************)
\* Consoles are 1..MaxConsole cells wide and high. The specification of the
\* entity pass uses floors of at most MaxEntityCells cells holding the
\* player and at most MaxItemPiles positions with items, and camera centers
\* up to EntityCamReach cells off the floor.
MaxConsole == 2
MaxEntityCells == 2
MaxItemPiles == 1
EntityCamReach == 1

ConsoleShapes == (1..MaxConsole) \X (1..MaxConsole)
ScreenCells(sshape) == WorldCells(sshape)

\* What the caller's buffer holds before render: a graphic no tile carries.
Stale == Graphic(0 - 1, <<1, 1, 1>>, <<1, 1, 1>>)
BlankConsole(sshape) == [s \in ScreenCells(sshape) |-> Stale]

\* The renderables: an actor's fighter and an item, each with char and color.
FighterGraphic(actor) == [char |-> 64 + actor, color |-> <<255, 255, 255>>]
ItemGraphic == [char |-> 33, color |-> <<255, 255, 0>>]

\* np.select with the two conditions in the other order.
select_ExploredFirst(w) ==
    IF explored[w] THEN tiles[w].dark
    ELSE IF visible[w] THEN tiles[w].light
    ELSE DARKNESS

\* One element of np.select((visible, explored), (light, dark), DARKNESS).
select(w) ==
    IF visible[w] THEN tiles[w].light
    ELSE IF explored[w] THEN tiles[w].dark
    ELSE DARKNESS

\* NumPy broadcasting of one dimension of a value onto a target.
Broadcasts(from, to) == from = to \/ from = 1
BroadcastIndex(k, from) == IF from = 1 THEN 1 ELSE k

\* console.tiles_rgb[screen_view] = np.select(...)[world_view]: the buffer
\* after the assignment, or ValueError when the shapes do not broadcast.
TerrainPass(buffer, sshape, v) ==
    LET s == ViewIndices(v.screen_view, sshape)
        w == ViewIndices(v.world_view, <<width, height>>)
    IN  IF ~(Broadcasts(Len(w.rows), Len(s.rows)) /\ Broadcasts(Len(w.cols), Len(s.cols)))
          THEN [raised |-> "ValueError", buffer |-> buffer]
          ELSE [raised |-> "",
                buffer |->
                  [c \in DOMAIN buffer |->
                     IF \E i \in DOMAIN s.rows, j \in DOMAIN s.cols : c = <<s.cols[j], s.rows[i]>>
                       THEN LET i == CHOOSE i \in DOMAIN s.rows : s.rows[i] = c[2]
                                j == CHOOSE j \in DOMAIN s.cols : s.cols[j] = c[1]
                            IN  select(<<w.cols[BroadcastIndex(j, Len(w.cols))],
                                         w.rows[BroadcastIndex(i, Len(w.rows))]>>)
                       ELSE buffer[c]]]

OnScreen(s, sshape) == 0 <= s[1] /\ s[1] < sshape[1] /\ 0 <= s[2] /\ s[2] < sshape[2]

\* The graphics of the actors and items at world position w, none unless
\* grid[w]: `if not self.visible[...]: continue`.
GraphicsAt(w, grid) ==
    IF w \in Cells /\ grid[w]
      THEN {FighterGraphic(a) : a \in {a \in actors : location[a] = w}}
           \cup (IF w \in DOMAIN items THEN {items[w][k] : k \in DOMAIN items[w]} ELSE {})
      ELSE {}

\* The dict of the graphics collected per screen cell, the entities
\* filtered on grid.
CollectObjs(cam, sshape, grid) ==
    LET cells == {s \in ScreenCells(sshape) :
                    GraphicsAt(<<s[1] + cam[1], s[2] + cam[2]>>, grid) # {}}
    IN  [s \in cells |-> GraphicsAt(<<s[1] + cam[1], s[2] + cam[2]>>, grid)]

\* The entity filter testing explored instead of visible.
visible_objs_Remembered(cam, sshape) == CollectObjs(cam, sshape, explored)

\* visible_objs: screen cell -> the graphics of the actors and items that
\* map onto the console and whose world cell is visible.
visible_objs(cam, sshape) == CollectObjs(cam, sshape, visible)

\* min(graphics) per screen cell. The order of Graphic is no part of the
\* sources: min may return any of the graphics of the cell.
MinGraphics(objs) == {pick \in [DOMAIN objs -> UNION {objs[s] : s \in DOMAIN objs}] :
                        \A s \in DOMAIN objs : pick[s] \in objs[s]}

\* console.tiles_rgb[["ch", "fg"]][ij] = graphic.char, graphic.color
DrawEntities(buffer, pick) ==
    [c \in DOMAIN buffer |->
        IF c \in DOMAIN pick
          THEN [buffer[c] EXCEPT !.ch = pick[c].char, !.fg = pick[c].color]
          ELSE buffer[c]]

\* GameMap.render(console) onto a console of any of the shapes. render
\* changes nothing of the floor, so one call per behaviour covers every call.
render ==
    /\ ~console.called
    /\ \E sshape \in ConsoleShapes :
          LET before == BlankConsole(sshape)
              cam == get_left_top_pos(camera_xy, sshape)
              v == get_views(camera_xy, <<width, height>>, sshape)
              t == TerrainPass(before, sshape, v)
          IN  /\ screen_shape' = sshape
              /\ views' = v
              /\ IF t.raised # ""
                    THEN console' = [called |-> TRUE, raised |-> t.raised, before |-> before,
                                     terrain |-> t.buffer, tiles_rgb |-> t.buffer]
                    ELSE \E pick \in MinGraphics(visible_objs(cam, sshape)) :
                           console' = [called |-> TRUE, raised |-> "", before |-> before,
                                       terrain |-> t.buffer,
                                       tiles_rgb |-> DrawEntities(t.buffer, pick)]
    /\ UNCHANGED <<width, height, camera_xy, tiles, visible, explored, actors, location,
                   items, query, fighter, pc, calls, turns>>

\* A floor some update_fov calls have left: any visible grid within any
\* explored grid.
SeenFloor(cells) ==
    /\ \E s \in Shapes(cells) : width = s[1] /\ height = s[2]
    /\ tiles = Terrain(<<width, height>>)
    /\ explored \in [Cells -> BOOLEAN]
    /\ visible \in {g \in [Cells -> BOOLEAN] : \A c \in Cells : g[c] => explored[c]}
    /\ screen_shape = None /\ views = NoCall
    /\ console = NoCall /\ query = NoCall
    /\ NoLoop

\* The terrain pass: floors without entities under cameras near and far.
TerrainInit ==
    /\ SeenFloor(MaxCells)
    /\ camera_xy \in CamCoords(width) \X CamCoords(height)
    /\ actors = {} /\ location = <<>> /\ items = <<>>

TerrainNext == render
SpecTerrain == TerrainInit /\ [][TerrainNext]_vars

\* The entity pass: floors with the player and item piles on them.
ItemPiles ==
    UNION {[S -> {<<ItemGraphic>>}] : S \in {S \in SUBSET Cells : Cardinality(S) <= MaxItemPiles}}

EntitiesInit ==
    /\ SeenFloor(MaxEntityCells)
    /\ camera_xy \in ((0 - EntityCamReach)..(width - 1 + EntityCamReach))
                      \X ((0 - EntityCamReach)..(height - 1 + EntityCamReach))
    /\ location \in [{Player} -> Cells]
    /\ actors = {Player}
    /\ items \in ItemPiles

EntitiesNext == render
SpecEntities == EntitiesInit /\ [][EntitiesNext]_vars

CamLeftTop == get_left_top_pos(camera_xy, screen_shape)
WorldOf(s) == <<s[1] + CamLeftTop[1], s[2] + CamLeftTop[2]>>
ScreenOf(w) == <<w[1] - CamLeftTop[1], w[2] - CamLeftTop[2]>>

\* C3 (as claimed): when the camera window does not meet the world, render
\* raises nothing and its terrain pass writes no cell.
C3_EmptyOverlapIsNoOp ==
    (console.called /\ Window(camera_xy, <<width, height>>, screen_shape) = {}) =>
        console.raised = "" /\ console.terrain = console.before

\* Whenever the window does not meet the world, no cell is written.
EmptyOverlapWritesNothing ==
    (console.called /\ Window(camera_xy, <<width, height>>, screen_shape) = {}) =>
        console.terrain = console.before /\ console.tiles_rgb = console.before

\* Whenever the window meets the world, render raises nothing.
NonEmptyOverlapRenders ==
    (console.called /\ Window(camera_xy, <<width, height>>, screen_shape) # {}) =>
        console.raised = ""

\* C10: the terrain pass writes the lit graphic of w where w is visible, the
\* dark graphic where w is explored only, DARKNESS elsewhere, for every
\* screen cell s paired with a world cell w of the overlap, and leaves every
\* other screen cell unchanged.
C10_TerrainPass ==
    console.called =>
        \A s \in ScreenCells(screen_shape) :
            IF WorldOf(s) \in Cells
              THEN LET w == WorldOf(s)
                   IN  /\ console.raised = ""
                       /\ visible[w] => console.terrain[s] = tiles[w].light
                       /\ (~visible[w] /\ explored[w]) => console.terrain[s] = tiles[w].dark
                       /\ (~visible[w] /\ ~explored[w]) => console.terrain[s] = DARKNESS
              ELSE console.terrain[s] = console.before[s]

\* A frame showing a remembered cell next to a screen cell the world does not reach.
C10_Witness ==
    /\ console.called /\ console.raised = ""
    /\ \E s \in ScreenCells(screen_shape) :
          /\ WorldOf(s) \in Cells /\ explored[WorldOf(s)] /\ ~visible[WorldOf(s)]
          /\ console.terrain[s] = tiles[WorldOf(s)].dark
    /\ \E s \in ScreenCells(screen_shape) : WorldOf(s) \notin Cells

\* The world positions that hold an actor or an item pile.
EntityCells == {location[a] : a \in actors} \cup DOMAIN items

\* C7: an entity whose world cell is not visible contributes nothing to the
\* frame: the screen cell it maps to holds what the terrain pass wrote
\* there, the remembered graphic if the cell is explored.
C7_UnseenEntityNotDrawn ==
    console.called =>
        \A w \in EntityCells :
            (~visible[w] /\ OnScreen(ScreenOf(w), screen_shape)) =>
                /\ console.raised = ""
                /\ console.tiles_rgb[ScreenOf(w)] = console.terrain[ScreenOf(w)]
                /\ console.tiles_rgb[ScreenOf(w)] =
                       IF explored[w] THEN tiles[w].dark ELSE DARKNESS

\* The player and an item pile stand on an explored cell that is not visible
\* and that the frame shows.
C7_Witness ==
    /\ console.called /\ console.raised = ""
    /\ \E w \in Cells :
          /\ location[Player] = w /\ w \in DOMAIN items
          /\ explored[w] /\ ~visible[w]
          /\ OnScreen(ScreenOf(w), screen_shape)

\* A visible entity is drawn over the terrain: glyph and foreground are the
\* entity's, the background is the terrain's.
VisibleEntityDrawn ==
    console.called =>
        \A w \in EntityCells :
            (visible[w] /\ OnScreen(ScreenOf(w), screen_shape)) =>
                /\ console.tiles_rgb[ScreenOf(w)].bg = tiles[w].light.bg
                /\ console.tiles_rgb[ScreenOf(w)].ch # tiles[w].light.ch

====
